---- MODULE Spec2Model ----
(***************************************************************************)
(* Model of the YouTube summarizer bot: process_video (src/bot.py) run by  *)
(* concurrent asyncio tasks over the SQLite tables summaries and           *)
(* user_usage (src/db_utils.py) and the backend calls of                   *)
(* src/youtube_utils.py.                                                   *)
(*                                                                         *)
(* The event loop is single threaded: a coroutine runs without             *)
(* interruption from one `await` to the next, and every                    *)
(* `await asyncio.to_thread(f, ...)` runs one db_utils / youtube_utils     *)
(* function, which is one SQLite transaction or one backend request.  One  *)
(* action of the model is therefore one awaited call together with the     *)
(* coroutine code that follows it up to the next await (or the return).    *)
(*                                                                         *)
(* Storage calls are taken to succeed (apart from the IntegrityError that  *)
(* insert_processing_record handles); backend calls may return, return     *)
(* nothing, or raise.                                                      *)
(***************************************************************************)
EXTENDS Integers, Sequences, FiniteSets, TLC

\* ---------------------------------------------------------------- bounds
\* process_video invocations started in one behaviour
MaxCalls == 2
\* UTC days that pass in one behaviour (days 0 .. MaxDay)
MaxDay == 1
\* USER_DAILY_LIMIT is read from the environment (default 20); the model
\* runs the bot configured with this ceiling
USER_DAILY_LIMIT == 1

\* the tasks that run process_video concurrently
Procs == {"task1", "task2"}
Users == {101, 102}

\* ------------------------------------------------------------- references
UrlWatch == "https://www.youtube.com/watch?v=AAAAAAAAAAA"
UrlShort == "https://youtu.be/AAAAAAAAAAA"
UrlBad == "hello"
Urls == {UrlWatch, UrlShort, UrlBad}

NoId == "None"

\* youtube_utils.get_video_id on the references of the model: the first
\* pattern finds "v=" followed by 11 identifier characters in UrlWatch and
\* "/" followed by 11 identifier characters in UrlShort; neither pattern
\* matches UrlBad.
get_video_id(u) ==
    CASE u = UrlWatch -> "AAAAAAAAAAA"
      [] u = UrlShort -> "AAAAAAAAAAA"
      [] OTHER -> NoId

\* ------------------------------------------------------------- backend
\* What the YouTube Data API holds for a video id (get_video_details).
TitleOf(vid) == "Title " \o vid
ChannelOf(vid) == "Channel " \o vid
\* The text generate_summary returns: every task gets an answer of its own,
\* so that the generations of concurrent invocations can be told apart.
SummaryOf(p) == "summary for " \o p

\* get_video_details: the details, no item, or an API error
DetailsResults == {"ok", "none", "raise"}
\* how far the backend calls of the try block get; summary_quota is the
\* ResourceExhausted of Gemini that says the quota is exceeded, which
\* generate_summary turns into QuotaExceededError, summary_exhausted a
\* ResourceExhausted with another message, which it raises as it is
GenerateResults ==
    {"ok", "details_none", "details_raise", "transcript_disabled",
     "transcript_raise", "summary_quota", "summary_exhausted",
     "summary_raise"}
\* the exception the try block ends with
ExceptionOf(g) ==
    CASE g = "ok" -> "none"
      [] g = "details_none" -> "ValueError"
      [] g = "transcript_disabled" -> "NoTranscriptFound"
      [] g = "summary_quota" -> "QuotaExceededError"
      [] OTHER -> "Exception"
\* the backend calls made before the try block ends
BackendCalls(g) ==
    CASE g \in {"details_none", "details_raise"} -> <<"details">>
      [] g \in {"transcript_disabled", "transcript_raise"} ->
            <<"details", "transcript">>
      [] OTHER -> <<"details", "transcript", "summary">>

\* ------------------------------------------------------------- db_utils
NULL == "NULL"
\* fetchone() found no row
NoRow ==
    [youtube_url |-> NULL, video_title |-> NULL, channel_title |-> NULL,
     summary_text |-> NULL, status |-> "none"]

RowsOf(tbl, u) == {r \in tbl : r.youtube_url = u}

\* a lookup by the video the reference names
get_summary_by_video_id(tbl, u) ==
    LET same == {r \in tbl : /\ get_video_id(u) # NoId
                             /\ get_video_id(r.youtube_url) = get_video_id(u)}
    IN IF same = {} THEN NoRow ELSE CHOOSE r \in same : TRUE

get_summary_from_db(tbl, u) ==
    IF RowsOf(tbl, u) = {} THEN NoRow ELSE CHOOSE r \in RowsOf(tbl, u) : TRUE

\* an add_summary_to_db that loses the summary text
add_summary_without_text(tbl, u, vt, ct, st) ==
    (tbl \ RowsOf(tbl, u)) \cup
        {[youtube_url |-> u, video_title |-> vt, channel_title |-> ct,
          summary_text |-> NULL, status |-> "complete"]}

\* a plain INSERT where the table had no UNIQUE constraint
add_summary_plain_insert(tbl, u, vt, ct, st) ==
    tbl \cup
        {[youtube_url |-> u, video_title |-> vt, channel_title |-> ct,
          summary_text |-> st, status |-> "complete"]}

\* INSERT OR REPLACE: the row in conflict on youtube_url is removed first
add_summary_to_db(tbl, u, vt, ct, st) ==
    (tbl \ RowsOf(tbl, u)) \cup
        {[youtube_url |-> u, video_title |-> vt, channel_title |-> ct,
          summary_text |-> st, status |-> "complete"]}

\* an UPDATE that matches no row
update_nothing(tbl, u, s) == tbl

update_summary_status(tbl, u, s) ==
    {IF r.youtube_url = u THEN [r EXCEPT !.status = s] ELSE r : r \in tbl}

\* the UNIQUE constraint on youtube_url: sqlite3.IntegrityError, None returned
insert_conflict(tbl, u) == RowsOf(tbl, u) # {}

insert_processing_record(tbl, u) ==
    IF insert_conflict(tbl, u) THEN tbl
    ELSE tbl \cup
        {[youtube_url |-> u, video_title |-> NULL, channel_title |-> NULL,
          summary_text |-> NULL, status |-> "processing"]}

\* a delete that spares the rows with a summary
delete_unless_complete(tbl, u) ==
    tbl \ {r \in RowsOf(tbl, u) : r.status # "complete"}

delete_summary_record(tbl, u) == tbl \ RowsOf(tbl, u)

\* a log that keeps the last event only
log_latest_usage_only(log, uid, u, now) ==
    <<[user_id |-> uid, youtube_url |-> u, summarized_at |-> now]>>

log_user_usage(log, uid, u, now) ==
    Append(log, [user_id |-> uid, youtube_url |-> u, summarized_at |-> now])

\* get_user_usage_today without the test on summarized_at
usage_of_all_days(log, uid, now) ==
    Cardinality({i \in DOMAIN log : log[i].user_id = uid})

\* timestamps are modelled by their UTC day: summarized_at >= midnight of today
get_user_usage_today(log, uid, now) ==
    Cardinality({i \in DOMAIN log :
                    log[i].user_id = uid /\ log[i].summarized_at >= now})

\* the retry test forgetting 'failed'
retryable_processing_only(status) == status = "processing"

\* bot.py 119: the statuses process_video deletes and retries
retryable(status) == status \in {"failed", "processing"}

\* the rate-limit test with > for >=
limit_passed(usage) == usage > USER_DAILY_LIMIT

\* bot.py 83: the rate-limit test of process_video
limit_reached(usage) == usage >= USER_DAILY_LIMIT

\* ------------------------------------------------------------- state
VARIABLES
    youtube_client,   \* bot.youtube_client is set (setup_hook)
    summaries,        \* table summaries
    user_usage,       \* table user_usage, in insertion order
    today,            \* the current UTC day
    calls,            \* process_video invocations started so far
    task,             \* per task: the invocation of process_video it runs
    completed,        \* history: 'complete' returns per user in this UTC day
    started,          \* setup_database() has returned and bot.run() is reached
    orphans,          \* history: the references whose row the sweep changed
    batch,            \* the run of handle_multiple_videos
    reading,          \* a text and the reading time estimated for it
    recap             \* a results_log and the detailed log rendered from it

tables == <<summaries, user_usage>>
\* what process_video does not touch
others == <<started, orphans, batch, reading, recap>>
vars == <<youtube_client, summaries, user_usage, today, calls, task, completed,
          started, orphans, batch, reading, recap>>

NoOutcome == [status |-> "none", shape |-> "none", video_title |-> NULL,
              summary_text |-> NULL]
\* ('status', "message")
StrOutcome(s) == [status |-> s, shape |-> "str", video_title |-> NULL,
                  summary_text |-> NULL]
\* ('status', (error_message, video_title))
PairOutcome(s, t) == [status |-> s, shape |-> "pair", video_title |-> t,
                      summary_text |-> NULL]
\* ('status', {...})
DictOutcome(s, t, st) == [status |-> s, shape |-> "dict", video_title |-> t,
                          summary_text |-> st]
\* an exception left process_video
Raised == [status |-> "raised", shape |-> "none", video_title |-> NULL,
           summary_text |-> NULL]

\* A task that runs nothing.  pc is the await the invocation stands at; url,
\* user_id and force_new are its arguments; video_id .. exc are the locals of
\* process_video; outcome is what it returned.  History, for the properties:
\* ops (the storage and backend calls the invocation made, in order), row0
\* (the status of the row of url when the invocation began), alone (no other
\* invocation on the same url has overlapped it), first (it began with no
\* row of url and no other invocation on url in flight), removed (a
\* delete_summary_record of the invocation found a row to delete).
Idle ==
    [pc |-> "idle", url |-> NULL, user_id |-> 0, force_new |-> FALSE,
     video_id |-> NoId, is_cached_and_complete |-> FALSE,
     cached_result |-> NoRow, video_title |-> NULL,
     channel_title |-> NULL, summary_text |-> NULL, exc |-> "none",
     outcome |-> NoOutcome, ops |-> <<>>, row0 |-> "none", alone |-> TRUE,
     first |-> FALSE, removed |-> FALSE]

InFlight(p) == task[p].pc \notin {"idle", "done"}

\* the invocations the commands make: (url, interaction.user.id, force_new)
CallInputs ==
    {<<UrlWatch, 101, FALSE>>, <<UrlWatch, 101, TRUE>>,
     <<UrlWatch, 102, FALSE>>, <<UrlShort, 101, FALSE>>,
     <<UrlBad, 101, FALSE>>, <<UrlBad, 102, TRUE>>}

\* handle_multiple_videos called with url_list l and force_new f, at its
\* loop.  pc is where the coroutine stands, i the index of the item the
\* loop is at (from 1); success_count .. video_title_for_log are its locals;
\* report is what it sent last.  History: fetches counts the
\* get_video_details calls of the driver itself.
NewBatch(l, f) ==
    [pc |-> "item", url_list |-> l, force_new |-> f, i |-> 1,
     success_count |-> 0, fail_count |-> 0, cached_count |-> 0,
     user_limit_hit |-> FALSE, quota_hit |-> FALSE, results_log |-> <<>>,
     video_title_for_log |-> NULL, fetches |-> 0, report |-> NULL]
\* no batch is run
NoBatch == [NewBatch(<<>>, FALSE) EXCEPT !.pc = "idle"]
\* no text is given; words is history: the words the text was made of
NoReading == [text |-> <<>>, words |-> 0, result |-> NULL]
\* no results_log is rendered
NoRecap == [results_log |-> <<>>, text |-> <<>>, sent |-> FALSE]

\* the bot after setup_database() on a new database file and setup_hook
Init ==
    /\ youtube_client \in BOOLEAN
    /\ summaries = {}
    /\ user_usage = <<>>
    /\ today = 0
    /\ calls = 0
    /\ task = [p \in Procs |-> Idle]
    /\ completed = [u \in Users |-> 0]
    /\ started = TRUE
    /\ orphans = {}
    /\ batch = NoBatch
    /\ reading = NoReading
    /\ recap = NoRecap

\* the record of an invocation that called op and went on to the await l
Step(t, l, op) == [t EXCEPT !.pc = l, !.ops = Append(@, op)]

\* the record of an invocation that returned o after calling the ops in
\* last: the frame of process_video is gone; its arguments, video_id, the
\* cache flag, its outcome and the calls it made stay until the task's next
\* invocation
Returned(t, o, last) ==
    [Idle EXCEPT !.pc = "done", !.url = t.url, !.user_id = t.user_id,
                 !.force_new = t.force_new, !.video_id = t.video_id,
                 !.is_cached_and_complete = t.is_cached_and_complete,
                 !.outcome = o, !.ops = t.ops \o last]

\* bot.py 59-76: process_video is called and runs up to its first await
Call(p, u, uid, f) ==
    /\ ~ InFlight(p)
    /\ LET t0 == [Idle EXCEPT
                    !.url = u, !.user_id = uid, !.force_new = f,
                    !.row0 = get_summary_from_db(summaries, u).status,
                    !.alone = ~ \E q \in Procs \ {p} :
                                    InFlight(q) /\ task[q].url = u,
                    !.first = /\ RowsOf(summaries, u) = {}
                              /\ ~ \E q \in Procs \ {p} :
                                    InFlight(q) /\ task[q].url = u]
           t1 == IF ~ youtube_client
                 THEN Returned(t0, StrOutcome("error"), <<>>)
                 ELSE IF get_video_id(u) = NoId
                 THEN Returned(t0, StrOutcome("invalid_url"), <<>>)
                 ELSE [t0 EXCEPT !.video_id = get_video_id(u),
                                 !.pc = IF f THEN "get_usage" ELSE "get_cached"]
       IN task' = [q \in Procs |->
                     IF q = p THEN t1
                     ELSE IF InFlight(q) /\ task[q].url = u
                          THEN [task[q] EXCEPT !.alone = FALSE]
                          ELSE task[q]]
    /\ UNCHANGED <<youtube_client, tables, today, completed>>

\* bot.py 284: a command calls process_video; the bot takes commands once
\* bot.run() is reached, after setup_database() (bot.py 358-359)
Start(p, u, uid, f) ==
    /\ started
    /\ calls < MaxCalls
    /\ calls' = calls + 1
    /\ Call(p, u, uid, f)
    /\ UNCHANGED others

\* bot.py 77-81: the first read of the row
GetCached(p) ==
    /\ task[p].pc = "get_cached"
    /\ LET row == get_summary_from_db(summaries, task[p].url)
           hit == row # NoRow /\ row.status = "complete"
       IN task' = [task EXCEPT ![p] =
                     [Step(@, IF hit THEN "cached_details" ELSE "get_usage",
                           "get")
                        EXCEPT !.cached_result = IF hit THEN row ELSE NoRow,
                               !.is_cached_and_complete = hit]]
    /\ UNCHANGED <<others, youtube_client, tables, today, calls, completed>>

\* the quota read with the force_new deletion moved in front of it
GetUsageAfterDelete(p) ==
    /\ task[p].pc = "get_usage"
    /\ summaries' = IF task[p].force_new
                    THEN delete_summary_record(summaries, task[p].url)
                    ELSE summaries
    /\ LET usage == get_user_usage_today(user_usage, task[p].user_id, today)
           made == IF task[p].force_new THEN <<"delete", "usage">>
                   ELSE <<"usage">>
       IN task' = [task EXCEPT ![p] =
                     IF limit_reached(usage)
                     THEN Returned(@, StrOutcome("limit_exceeded"), made)
                     ELSE [@ EXCEPT !.pc = "recheck", !.ops = @ \o made]]
    /\ UNCHANGED <<others, youtube_client, user_usage, today, calls, completed>>

\* bot.py 82-86: the quota read and the test against USER_DAILY_LIMIT
GetUsage(p) ==
    /\ task[p].pc = "get_usage"
    /\ LET usage == get_user_usage_today(user_usage, task[p].user_id, today)
       IN task' = [task EXCEPT ![p] =
                     IF limit_reached(usage)
                     THEN Returned(@, StrOutcome("limit_exceeded"), <<"usage">>)
                     ELSE Step(@, IF @.force_new THEN "force_delete"
                                  ELSE "recheck", "usage")]
    /\ UNCHANGED <<others, youtube_client, tables, today, calls, completed>>

\* bot.py 86-88: force_new deletes the row of the reference
ForceDelete(p) ==
    /\ task[p].pc = "force_delete"
    /\ summaries' = delete_summary_record(summaries, task[p].url)
    /\ task' = [task EXCEPT ![p] =
                  [Step(@, "recheck", "delete")
                     EXCEPT !.removed = RowsOf(summaries, task[p].url) # {}]]
    /\ UNCHANGED <<others, youtube_client, user_usage, today, calls, completed>>

\* bot.py 90-114: the cache hit; get_video_details is called outside any try,
\* so what it raises leaves process_video
CachedDetails(p) ==
    /\ task[p].pc = "cached_details"
    /\ \E r \in DetailsResults :
         task' = [task EXCEPT ![p] =
                    Returned(@, IF r = "raise" THEN Raised
                                ELSE DictOutcome("cached",
                                                 @.cached_result.video_title,
                                                 @.cached_result.summary_text),
                             <<"details">>)]
    /\ UNCHANGED <<others, youtube_client, tables, today, calls, completed>>

\* bot.py 116-120: the second read of the row; the row read is used in the
\* test of line 119 alone, so the record does not keep it
Recheck(p) ==
    /\ task[p].pc = "recheck"
    /\ LET row == get_summary_from_db(summaries, task[p].url)
       IN task' = [task EXCEPT ![p] =
                     Step(@, IF row # NoRow /\ retryable(row.status)
                             THEN "retry_delete" ELSE "insert", "get")]
    /\ UNCHANGED <<others, youtube_client, tables, today, calls, completed>>

\* bot.py 121: a 'failed' or 'processing' row is deleted for the retry
RetryDelete(p) ==
    /\ task[p].pc = "retry_delete"
    /\ summaries' = delete_summary_record(summaries, task[p].url)
    /\ task' = [task EXCEPT ![p] =
                  [Step(@, "insert", "delete")
                     EXCEPT !.removed = @ \/ RowsOf(summaries, task[p].url) # {}]]
    /\ UNCHANGED <<others, youtube_client, user_usage, today, calls, completed>>

\* bot.py 123-127: insert the 'processing' row, or give up on a conflict
Insert(p) ==
    /\ task[p].pc = "insert"
    /\ summaries' = insert_processing_record(summaries, task[p].url)
    /\ task' = [task EXCEPT ![p] =
                  IF insert_conflict(summaries, @.url)
                  THEN Returned(@, StrOutcome("in_progress"),
                                <<"insert_conflict">>)
                  ELSE [Step(@, "generate", "insert")
                          EXCEPT !.video_title = "N/A"]]
    /\ UNCHANGED <<others, youtube_client, user_usage, today, calls, completed>>

\* bot.py 129-137: the three backend calls of the try block.  They read and
\* write no table, only locals, so their interleaving with other tasks
\* changes nothing and they are one step here; g says how far they get.
\*   get_video_details: no items raises ValueError (130-131), an API error
\*   raises; get_transcript: TranscriptsDisabled / NoTranscriptFound, or
\*   another error; generate_summary (youtube_utils.py 189-195):
\*   QuotaExceededError, or another error.
Generate(p) ==
    /\ task[p].pc = "generate"
    /\ \E g \in GenerateResults :
         task' = [task EXCEPT ![p] =
            [@ EXCEPT
               !.pc = IF g = "ok" THEN "add_summary" ELSE "mark_failed",
               !.ops = @ \o BackendCalls(g),
               !.video_title =
                    IF g \in {"details_none", "details_raise"} THEN @
                    ELSE TitleOf(task[p].video_id),
               !.channel_title =
                    IF g \in {"details_none", "details_raise"} THEN @
                    ELSE ChannelOf(task[p].video_id),
               !.summary_text = IF g = "ok" THEN SummaryOf(p) ELSE @,
               !.exc = ExceptionOf(g)]]
    /\ UNCHANGED <<others, youtube_client, tables, today, calls, completed>>

\* bot.py 139: the row is written 'complete'
AddSummary(p) ==
    /\ task[p].pc = "add_summary"
    /\ summaries' = add_summary_to_db(summaries, task[p].url,
                                      task[p].video_title,
                                      task[p].channel_title,
                                      task[p].summary_text)
    /\ task' = [task EXCEPT ![p] = Step(@, "log_usage", "replace")]
    /\ UNCHANGED <<others, youtube_client, user_usage, today, calls, completed>>

\* bot.py 140-147: the Usage Event, then return 'complete'
LogUsage(p) ==
    /\ task[p].pc = "log_usage"
    /\ user_usage' = log_user_usage(user_usage, task[p].user_id, task[p].url,
                                    today)
    /\ task' = [task EXCEPT ![p] =
                  Returned(@, DictOutcome("complete", @.video_title,
                                          @.summary_text), <<"log">>)]
    /\ completed' = [completed EXCEPT ![task[p].user_id] = @ + 1]
    /\ UNCHANGED <<others, youtube_client, summaries, today, calls>>

\* except clauses that take every exception for the quota error
every_failure_is_quota(e) == "quota_exceeded"

\* bot.py 149-161: which except clause catches the exception
FailureStatus(e) ==
    IF e = "QuotaExceededError" THEN "quota_exceeded" ELSE "error"

\* except clauses that report the placeholder title whatever was fetched
MarkFailedWithoutTitle(p) ==
    /\ task[p].pc = "mark_failed"
    /\ summaries' = update_summary_status(summaries, task[p].url, "failed")
    /\ task' = [task EXCEPT ![p] =
                  Returned(@, PairOutcome(FailureStatus(@.exc), "N/A"),
                           <<"update">>)]
    /\ UNCHANGED <<others, youtube_client, user_usage, today, calls, completed>>

\* except clauses that return without a word to the store
MarkFailedWithoutUpdate(p) ==
    /\ task[p].pc = "mark_failed"
    /\ task' = [task EXCEPT ![p] =
                  Returned(@, PairOutcome(FailureStatus(@.exc), @.video_title),
                           <<>>)]
    /\ UNCHANGED <<others, youtube_client, tables, today, calls, completed>>

\* bot.py 149-161: the except clauses mark the row 'failed' and return
MarkFailed(p) ==
    /\ task[p].pc = "mark_failed"
    /\ summaries' = update_summary_status(summaries, task[p].url, "failed")
    /\ task' = [task EXCEPT ![p] =
                  Returned(@, PairOutcome(FailureStatus(@.exc), @.video_title),
                           <<"update">>)]
    /\ UNCHANGED <<others, youtube_client, user_usage, today, calls, completed>>

\* UTC midnight passes
Midnight ==
    /\ today < MaxDay
    /\ today' = today + 1
    /\ completed' = [u \in Users |-> 0]
    /\ UNCHANGED <<others, youtube_client, tables, calls, task>>

Next ==
    \/ \E p \in Procs, c \in CallInputs : Start(p, c[1], c[2], c[3])
    \/ \E p \in Procs : GetCached(p)
    \/ \E p \in Procs : GetUsage(p)
    \/ \E p \in Procs : ForceDelete(p)
    \/ \E p \in Procs : CachedDetails(p)
    \/ \E p \in Procs : Recheck(p)
    \/ \E p \in Procs : RetryDelete(p)
    \/ \E p \in Procs : Insert(p)
    \/ \E p \in Procs : Generate(p)
    \/ \E p \in Procs : AddSummary(p)
    \/ \E p \in Procs : LogUsage(p)
    \/ \E p \in Procs : MarkFailed(p)
    \/ Midnight

Spec == Init /\ [][Next]_vars

\* the step an invocation in flight takes when the call it awaits returns
Proceed(p) ==
    \/ GetCached(p)
    \/ GetUsage(p)
    \/ ForceDelete(p)
    \/ CachedDetails(p)
    \/ Recheck(p)
    \/ RetryDelete(p)
    \/ Insert(p)
    \/ Generate(p)
    \/ AddSummary(p)
    \/ LogUsage(p)
    \/ MarkFailed(p)

\* every awaited backend and storage call returns, and the event loop
\* resumes the task that awaited it
LiveSpec == Init /\ [][Next]_vars /\ \A p \in Procs : WF_vars(Proceed(p))

\* ------------------------------------------------- handle_multiple_videos
\* items in a batch
MaxBatch == 3
\* the task and the user of the command that runs the batch
BatchTask == "task1"
BatchUser == 101

\* summarize and summarize_playlist pass a list without duplicates
\* (dict.fromkeys, bot.py 276 and 320)
DistinctLists ==
    {l \in UNION {[1 .. n -> Urls] : n \in 1 .. MaxBatch} :
        \A i, j \in DOMAIN l : i # j => l[i] # l[j]}
\* summarize hands over two URLs or more with its force_new (bot.py 279-297);
\* summarize_playlist the watch URLs of a playlist, without force_new
\* (bot.py 321, youtube_utils.py 219)
BatchInputs ==
    {c \in DistinctLists \X BOOLEAN :
        Len(c[1]) >= 2 \/ (~ c[2] /\ c[1] = <<UrlWatch>>)}

\* what earlier commands left in the tables: nothing, a 'failed' row, or a
\* 'complete' row with the Usage Event of the user who had it generated
PriorStates ==
    {[summaries |-> {}, user_usage |-> <<>>],
     [summaries |-> update_summary_status(
                        insert_processing_record({}, UrlWatch), UrlWatch,
                        "failed"),
      user_usage |-> <<>>]}
    \cup
    {[summaries |-> add_summary_to_db({}, UrlWatch, TitleOf("AAAAAAAAAAA"),
                                      ChannelOf("AAAAAAAAAAA"),
                                      SummaryOf("task2")),
      user_usage |-> log_user_usage(<<>>, u, UrlWatch, 0)] : u \in Users}

BatchInit ==
    /\ youtube_client \in BOOLEAN
    /\ \E pr \in PriorStates :
          /\ summaries = pr.summaries
          /\ user_usage = pr.user_usage
          /\ completed = [u \in Users |->
                            get_user_usage_today(pr.user_usage, u, 0)]
    /\ today = 0
    /\ calls = 0
    /\ task = [p \in Procs |-> Idle]
    /\ started = TRUE
    /\ orphans = {}
    /\ batch = NoBatch
    /\ reading = NoReading
    /\ recap = NoRecap

\* a latch that ignores the backend quota
latched_by_user_only(b) == b.user_limit_hit

\* bot.py 185-192: a hard stop was seen earlier in the batch
latched(b) == b.user_limit_hit \/ b.quota_hit

\* an entry of results_log; reason is NULL where the entry has no 'reason'
LogEntry(t, u, st, r) == [title |-> t, url |-> u, status |-> st, reason |-> r]

\* bot.py 164-179: the call; without the API client nothing is processed
BatchBegin(l, f) ==
    /\ batch.pc = "idle"
    /\ batch' = IF youtube_client THEN NewBatch(l, f)
                ELSE [NewBatch(l, f) EXCEPT !.pc = "unavailable"]
    /\ UNCHANGED <<youtube_client, tables, today, calls, task, completed,
                   started, orphans, reading, recap>>

\* a skip that is logged but not counted
BatchSkipUncounted ==
    /\ batch.pc = "item" /\ batch.i <= Len(batch.url_list)
    /\ latched(batch)
    /\ LET url == batch.url_list[batch.i]
       IN batch' = [batch EXCEPT
                      !.results_log =
                          Append(@, LogEntry(url, url, "skipped", NULL)),
                      !.video_title_for_log = url,
                      !.i = @ + 1]
    /\ UNCHANGED <<youtube_client, tables, today, calls, task, completed,
                   started, orphans, reading, recap>>

\* bot.py 181-192: an item after a hard stop is recorded as skipped.  The
\* loop does not await here; the iterations are steps of their own so that
\* the loop boundaries are states.
BatchSkip ==
    /\ batch.pc = "item" /\ batch.i <= Len(batch.url_list)
    /\ latched(batch)
    /\ LET url == batch.url_list[batch.i]
       IN batch' = [batch EXCEPT
                      !.fail_count = @ + 1,
                      !.results_log =
                          Append(@, LogEntry(url, url, "skipped", NULL)),
                      !.video_title_for_log = url,
                      !.i = @ + 1]
    /\ UNCHANGED <<youtube_client, tables, today, calls, task, completed,
                   started, orphans, reading, recap>>

\* bot.py 181-206: the title for the progress message; what
\* get_video_details raises is dropped (201-204)
BatchTitle ==
    /\ batch.pc = "item" /\ batch.i <= Len(batch.url_list)
    /\ ~ latched(batch)
    /\ LET url == batch.url_list[batch.i]
           vid == get_video_id(url)
       IN IF vid = NoId
          THEN batch' = [batch EXCEPT !.pc = "call",
                                      !.video_title_for_log = url]
          ELSE \E r \in DetailsResults :
                 batch' = [batch EXCEPT
                             !.pc = "call",
                             !.fetches = @ + 1,
                             !.video_title_for_log =
                                 IF r = "ok" THEN TitleOf(vid) ELSE url]
    /\ UNCHANGED <<youtube_client, tables, today, calls, task, completed,
                   started, orphans, reading, recap>>

\* bot.py 208: process_video is called for the item
BatchCall ==
    /\ batch.pc = "call"
    /\ Call(BatchTask, batch.url_list[batch.i], BatchUser, batch.force_new)
    /\ batch' = [batch EXCEPT !.pc = "wait"]
    /\ UNCHANGED <<calls, started, orphans, reading, recap>>

\* bot.py 210-233: the branch for the status process_video returned.
\* `error_message, video_title = data` (224, 230) needs a pair: on the plain
\* message of 'invalid_url' and 'in_progress' it raises ValueError, and an
\* exception that left process_video leaves handle_multiple_videos too.
AfterItem(b, o) ==
    LET url == b.url_list[b.i]
        next == [b EXCEPT !.pc = "item", !.i = @ + 1]
    IN CASE o.status = "raised" -> [b EXCEPT !.pc = "raised"]
         [] o.status = "complete" ->
              [next EXCEPT
                 !.success_count = @ + 1,
                 !.results_log = Append(@, LogEntry(o.video_title, url,
                                                    "summarized", NULL))]
         [] o.status = "cached" ->
              [next EXCEPT
                 !.cached_count = @ + 1,
                 !.results_log = Append(@, LogEntry(o.video_title, url,
                                                    "cached", NULL))]
         [] o.status = "limit_exceeded" ->
              [next EXCEPT
                 !.user_limit_hit = TRUE,
                 !.fail_count = @ + 1,
                 !.results_log = Append(@, LogEntry(b.video_title_for_log, url,
                                                    "failed", o.status))]
         [] o.status = "quota_exceeded" ->
              [next EXCEPT
                 !.quota_hit = TRUE,
                 !.fail_count = @ + 1,
                 !.results_log = Append(@, LogEntry(o.video_title, url,
                                                    "failed", o.status))]
         [] OTHER ->
              IF o.shape = "pair"
              THEN [next EXCEPT
                      !.fail_count = @ + 1,
                      !.results_log = Append(@, LogEntry(o.video_title, url,
                                                         "failed", o.status))]
              ELSE [b EXCEPT !.pc = "crashed", !.fail_count = @ + 1]

BatchResult ==
    /\ batch.pc = "wait"
    /\ task[BatchTask].pc = "done"
    /\ batch' = AfterItem(batch, task[BatchTask].outcome)
    /\ UNCHANGED <<youtube_client, tables, today, calls, task, completed,
                   started, orphans, reading, recap>>

\* bot.py 236-269: the recap embed: the counts and one line per entry of
\* results_log
BatchReport ==
    /\ batch.pc = "item" /\ batch.i > Len(batch.url_list)
    /\ batch' = [batch EXCEPT
                   !.pc = "done",
                   !.report = [new |-> batch.success_count,
                               cached |-> batch.cached_count,
                               failed |-> batch.fail_count,
                               lines |-> batch.results_log]]
    /\ UNCHANGED <<youtube_client, tables, today, calls, task, completed,
                   started, orphans, reading, recap>>

BatchNext ==
    \/ \E c \in BatchInputs : BatchBegin(c[1], c[2])
    \/ BatchSkip
    \/ BatchTitle
    \/ BatchCall
    \/ BatchResult
    \/ BatchReport
    \/ GetCached(BatchTask)
    \/ GetUsage(BatchTask)
    \/ ForceDelete(BatchTask)
    \/ CachedDetails(BatchTask)
    \/ Recheck(BatchTask)
    \/ RetryDelete(BatchTask)
    \/ Insert(BatchTask)
    \/ Generate(BatchTask)
    \/ AddSummary(BatchTask)
    \/ LogUsage(BatchTask)
    \/ MarkFailed(BatchTask)
    \/ Midnight

BatchSpec == BatchInit /\ [][BatchNext]_vars

\* ------------------------------------------------------------- properties
Has(seq, x) == \E i \in DOMAIN seq : seq[i] = x
Count(seq, x) == Cardinality({i \in DOMAIN seq : seq[i] = x})
IsPrefix(a, b) == Len(a) <= Len(b) /\ \A i \in DOMAIN a : a[i] = b[i]

\* calls that change the Job table or the Usage Event log
Mutations == {"delete", "insert", "replace", "update", "log"}
\* calls to the backend
BackendOps == {"details", "transcript", "summary"}
Mutated(p) == \E i \in DOMAIN task[p].ops : task[p].ops[i] \in Mutations
Done(p) == task[p].pc = "done"
\* the reference passed get_video_id (bot.py 70-72)
Valid(p) == task[p].video_id # NoId
\* between a successful insert_processing_record and the return
Generating(p) ==
    task[p].pc \in {"generate", "add_summary", "log_usage", "mark_failed"}

\* no other task has run anything yet: the invocations of p follow one
\* another and nothing else touches the tables
OnlyTask(p) == \A q \in Procs \ {p} : task[q].pc = "idle"

\* C1: for every reference at most one invocation of process_video is
\* between its successful insert_processing_record and its return.  Stated
\* for force_new=false invocations, which ask for no deletion.
C1_OneGenerationPerReference ==
    \A u \in Urls :
        Cardinality({p \in Procs : /\ Generating(p)
                                   /\ task[p].url = u
                                   /\ ~ task[p].force_new}) <= 1

\* C2: of concurrent force_new=false invocations on a reference that had no
\* row when the first of them began, exactly one gets past the insert: while
\* the first is in flight, no two of them are past the insert.
C2_OneWinnerOnFreshReference ==
    \A p \in Procs : \A q \in Procs \ {p} :
        ( /\ task[p].first /\ InFlight(p) /\ ~ task[p].force_new
          /\ InFlight(q) /\ task[q].url = task[p].url /\ ~ task[q].force_new )
        => ~ (Generating(p) /\ Generating(q))

\* the references of the Usage Events of user u on day d
ReferencesUsed(u, d) ==
    {user_usage[i].youtube_url :
        i \in {j \in DOMAIN user_usage :
                 /\ user_usage[j].user_id = u
                 /\ user_usage[j].summarized_at = d}}

\* C3: the Usage Events logged for one user within one UTC day never exceed
\* USER_DAILY_LIMIT, also with invocations for different references in
\* flight at once.  Stated on the different references of the user's events,
\* so that two generations of one reference do not count twice.
C3_UsageWithinCeiling ==
    \A u \in Users, d \in 0 .. MaxDay :
        Cardinality(ReferencesUsed(u, d)) <= USER_DAILY_LIMIT

\* C4: after an invocation on a reference returned 'complete' and nothing
\* else touched the reference, a following force_new=false invocation (it
\* finds the row 'complete') returns 'cached', having made no transcript
\* fetch and no generate_summary call, no change to the Job row and no Usage
\* Event.
C4_CompleteRowIsServedFromCache ==
    \A p \in Procs :
        Done(p) /\ task[p].is_cached_and_complete /\ OnlyTask(p)
        => /\ task[p].outcome.status = "cached"
           /\ ~ Mutated(p)
           /\ ~ Has(task[p].ops, "transcript")
           /\ ~ Has(task[p].ops, "summary")

\* every call of ops that changes a table or reaches the backend comes
\* after the quota read
QuotaFirst(ops) ==
    \A i \in DOMAIN ops :
        ops[i] \in Mutations \cup BackendOps
        => \E j \in 1 .. (i - 1) : ops[j] = "usage"

\* C5: the cache hit is the only path that skips the quota check: a hit
\* returns 'cached' without reading the quota, also for a caller at the
\* ceiling, and every other invocation on a valid reference reads the quota
\* before it changes a Job row or calls the backend.
C5_OnlyCacheHitSkipsQuota ==
    \A p \in Procs :
        /\ ( /\ Done(p) /\ task[p].is_cached_and_complete /\ OnlyTask(p)
             /\ limit_reached(get_user_usage_today(user_usage,
                                                   task[p].user_id, today)) )
           => /\ task[p].outcome.status = "cached"
              /\ ~ Has(task[p].ops, "usage")
        /\ Valid(p) /\ ~ task[p].is_cached_and_complete
           => QuotaFirst(task[p].ops)

\* the usage of the user of p's invocation in the current UTC day
UsageOf(p) == get_user_usage_today(user_usage, task[p].user_id, today)

\* C6: the quota test lets an invocation on if and only if the usage of its
\* user in the current UTC day is below the ceiling: at the ceiling the
\* invocation returns 'limit_exceeded', at ceiling-1 it goes on.
C6_AllowIffBelowCeiling ==
    [][\A p \in Procs :
          task[p].pc = "get_usage" /\ task'[p].pc # "get_usage"
          => IF UsageOf(p) < USER_DAILY_LIMIT
             THEN task'[p].pc \in {"force_delete", "recheck"}
             ELSE /\ task'[p].pc = "done"
                  /\ task'[p].outcome.status = "limit_exceeded"]_vars

\* C6 witness: a user exactly at the ceiling was turned away
C6_RejectedAtCeiling ==
    \E p \in Procs :
        /\ Done(p) /\ task[p].outcome.status = "limit_exceeded"
        /\ UsageOf(p) = USER_DAILY_LIMIT

\* C7: get_user_usage_today(U) is the number of invocations by U that
\* returned 'complete' in the current UTC day; no other outcome adds to it,
\* and it is 0 after the day rolls over.
C7_UsageCountsCompletes ==
    \A u \in Users :
        get_user_usage_today(user_usage, u, today) = completed[u]

\* C7 witness: a user with an event of an earlier day and a 'complete' today
C7_CompleteAfterRollover ==
    \E u \in Users :
        /\ completed[u] >= 1
        /\ \E i \in DOMAIN user_usage :
              /\ user_usage[i].user_id = u
              /\ user_usage[i].summarized_at < today

\* an invocation that ran fresh generation to its end: one Usage Event when
\* it returned 'complete', none when the backend failed
RanGeneration(p) ==
    /\ Has(task[p].ops, "insert")
    /\ Has(task[p].ops, "details")
    /\ task[p].outcome.status \in {"complete", "quota_exceeded", "error"}
    /\ Count(task[p].ops, "log") =
          (IF task[p].outcome.status = "complete" THEN 1 ELSE 0)

\* C8 as claimed: a force_new invocation on a valid reference always deletes
\* the row of the reference, whatever the caller's usage, then runs fresh
\* generation and appends one Usage Event unless the backend fails.
C8_ForceNewAlwaysDeletes ==
    \A p \in Procs :
        Done(p) /\ task[p].force_new /\ Valid(p)
        => Has(task[p].ops, "delete") /\ RanGeneration(p)

\* C8 amended, the returned invocation: at the ceiling nothing is deleted;
\* below it the row is deleted right after the quota read, and generation
\* runs unless the insert meets a row another invocation put there
ForceNewOutcome(p) ==
    IF task[p].outcome.status = "limit_exceeded"
    THEN ~ Mutated(p)
    ELSE /\ IsPrefix(<<"usage", "delete", "get">>, task[p].ops)
         /\ \/ task[p].outcome.status = "in_progress" /\ ~ Has(task[p].ops, "log")
            \/ RanGeneration(p)

\* C8 amended: a force_new invocation on a valid reference by a caller below
\* the ceiling deletes the row of the reference whatever its status (a
\* caller at the ceiling gets 'limit_exceeded' and the row stays); it then
\* runs fresh generation, unless a concurrent invocation inserted a row
\* first and it returns 'in_progress', and appends one Usage Event when it
\* returns 'complete' and none when the backend fails.
C8_ForceNewDeletesBelowCeiling ==
    /\ [](\A p \in Procs :
            Done(p) /\ task[p].force_new /\ Valid(p) => ForceNewOutcome(p))
    /\ [][\A p \in Procs :
            task[p].pc = "force_delete" /\ task'[p].pc # "force_delete"
            => RowsOf(summaries', task[p].url) = {}]_vars

\* C8 witness: force_new has deleted a row that was 'complete'
C8_CompleteRowDeleted ==
    \E p \in Procs :
        /\ task[p].force_new /\ task[p].pc = "recheck"
        /\ task[p].row0 = "complete" /\ task[p].alone
        /\ RowsOf(summaries, task[p].url) = {}

\* C9: no permanent poison state: a force_new=false invocation that begins
\* on a 'failed' (or left-over 'processing') row, is not turned away by the
\* quota and has no concurrent invocation on its reference deletes the row,
\* inserts a 'processing' row and runs generation; it returns 'complete'
\* when the backend succeeds and never 'cached' or 'in_progress'.
C9_FailedRowIsRetried ==
    [][\A p \in Procs :
          ( /\ InFlight(p) /\ task'[p].pc = "done"
            /\ task[p].alone /\ ~ task[p].force_new
            /\ task[p].row0 \in {"failed", "processing"}
            /\ task'[p].outcome.status # "limit_exceeded" )
          => /\ IsPrefix(<<"get", "usage", "get", "delete", "insert", "details">>,
                         task'[p].ops)
             /\ task'[p].outcome.status \in {"complete", "quota_exceeded", "error"}
             /\ (task'[p].outcome.status = "complete" <=> task[p].exc = "none")]_vars

\* C9 witness: the retry of a 'failed' row has generated and written the
\* summary
C9_RetryGenerated ==
    \E p \in Procs :
        /\ task[p].pc = "log_usage" /\ task[p].alone /\ ~ task[p].force_new
        /\ task[p].row0 = "failed"
        /\ get_summary_from_db(summaries, task[p].url).status = "complete"

\* C10: an invocation that returns 'limit_exceeded' or 'invalid_url' has
\* made no change to the Job table or the Usage Event log (and no backend
\* call), whatever the row of its reference and for both values of
\* force_new.
C10_RejectionChangesNothing ==
    \A p \in Procs :
        Done(p) /\ task[p].outcome.status \in {"limit_exceeded", "invalid_url"}
        => /\ ~ Mutated(p)
           /\ \A i \in DOMAIN task[p].ops : task[p].ops[i] \notin BackendOps

\* C10 witness: a force_new invocation was turned away by the quota and the
\* row of its reference is still there
C10_ForceNewRejectedRowKept ==
    \E p \in Procs :
        /\ Done(p) /\ task[p].outcome.status = "limit_exceeded"
        /\ task[p].force_new
        /\ RowsOf(summaries, task[p].url) # {}

\* ------------------------------------------------------------- startup
\* a setup_database that leaves the rows as they are
setup_database_without_sweep(tbl) == tbl

\* db_utils.py 43: UPDATE summaries SET status = 'failed' WHERE status =
\* 'processing'; the CREATE TABLE IF NOT EXISTS statements leave the rows
setup_database(tbl) ==
    {IF r.status = "processing" THEN [r EXCEPT !.status = "failed"] ELSE r :
        r \in tbl}

\* the rows a run of the bot can leave for a reference: none, one it was
\* generating for when it stopped, a failed one, one with a summary
LeftoverRows(u) ==
    {{}, insert_processing_record({}, u),
     update_summary_status(insert_processing_record({}, u), u, "failed"),
     add_summary_to_db({}, u, TitleOf(get_video_id(u)),
                       ChannelOf(get_video_id(u)), SummaryOf("task1"))}
LeftoverTables ==
    {a \cup b : a \in LeftoverRows(UrlWatch), b \in LeftoverRows(UrlShort)}
LeftoverLogs ==
    {<<>>, log_user_usage(<<>>, 101, UrlWatch, 0),
     log_user_usage(log_user_usage(<<>>, 101, UrlWatch, 0), 102, UrlShort, 0)}

\* the process is started on the database file of an earlier run
\* (bot.py 354-358)
StartupInit ==
    /\ youtube_client \in BOOLEAN
    /\ summaries \in LeftoverTables
    /\ user_usage \in LeftoverLogs
    /\ completed = [u \in Users |-> get_user_usage_today(user_usage, u, 0)]
    /\ today = 0
    /\ calls = 0
    /\ task = [p \in Procs |-> Idle]
    /\ started = FALSE
    /\ orphans = {}
    /\ batch = NoBatch
    /\ reading = NoReading
    /\ recap = NoRecap

\* bot.py 358-359: setup_database() runs and returns, then bot.run()
SetupDatabase ==
    /\ ~ started
    /\ summaries' = setup_database(summaries)
    /\ orphans' = {r.youtube_url : r \in {x \in summaries :
                                             x.status = "processing"}}
    /\ started' = TRUE
    /\ UNCHANGED <<youtube_client, user_usage, today, calls, task, completed,
                   batch, reading, recap>>

\* the task that serves the commands after the start
StartupTask == "task1"

StartupNext ==
    \/ SetupDatabase
    \/ \E c \in CallInputs : Start(StartupTask, c[1], c[2], c[3])
    \/ GetCached(StartupTask)
    \/ GetUsage(StartupTask)
    \/ ForceDelete(StartupTask)
    \/ CachedDetails(StartupTask)
    \/ Recheck(StartupTask)
    \/ RetryDelete(StartupTask)
    \/ Insert(StartupTask)
    \/ Generate(StartupTask)
    \/ AddSummary(StartupTask)
    \/ LogUsage(StartupTask)
    \/ MarkFailed(StartupTask)

StartupSpec == StartupInit /\ [][StartupNext]_vars

\* ------------------------------------------------ estimate_reading_time
\* words in a text
MaxWords == 401

\* a text of w words of wl letters, gap blanks between two words and lead
\* blanks in front, as a sequence of characters
TextOf(w, wl, gap, lead) ==
    [i \in 1 .. (lead + (IF w = 0 THEN 0 ELSE w * wl + (w - 1) * gap)) |->
        IF i <= lead THEN " "
        ELSE IF (i - lead - 1) % (wl + gap) < wl THEN "w" ELSE " "]

\* len(text.split()): the maximal runs of characters that are not blank
word_count(text) ==
    Cardinality({i \in DOMAIN text :
                    text[i] # " " /\ (i = 1 \/ text[i - 1] = " ")})

\* a rounding that counts the minute begun by the next word
minutes_begun(n) == n \div 200 + 1

\* youtube_utils.py 52: math.ceil(word_count / 200)
minutes_of(n) == IF n % 200 = 0 THEN n \div 200 ELSE n \div 200 + 1

estimate_reading_time(text) ==
    LET minutes == minutes_of(word_count(text))
    IN IF minutes = 0 THEN "~1 min read"
       ELSE "~" \o ToString(minutes) \o " min" \o
            (IF minutes > 1 THEN "s" ELSE "") \o " read"

ReadingInit ==
    /\ youtube_client \in BOOLEAN
    /\ summaries = {}
    /\ user_usage = <<>>
    /\ today = 0
    /\ calls = 0
    /\ task = [p \in Procs |-> Idle]
    /\ completed = [u \in Users |-> 0]
    /\ started = TRUE
    /\ orphans = {}
    /\ batch = NoBatch
    /\ recap = NoRecap
    /\ \E w \in 0 .. MaxWords, wl \in 1 .. 2, gap \in 1 .. 2, lead \in 0 .. 1 :
          reading = [text |-> TextOf(w, wl, gap, lead), words |-> w,
                     result |-> NULL]

\* bot.py 94, 137: estimate_reading_time(summary_text)
Estimate ==
    /\ reading.result = NULL
    /\ reading' = [reading EXCEPT !.result = estimate_reading_time(reading.text)]
    /\ UNCHANGED <<youtube_client, tables, today, calls, task, completed,
                   started, orphans, batch, recap>>

ReadingNext == Estimate

ReadingSpec == ReadingInit /\ [][ReadingNext]_vars

\* ------------------------------------------------- the detailed log
\* entries in a results_log, and characters in a title
MaxLines == 48
MaxTitle == 40
\* bot.py 261, 262: the limit of the embed and the place of the cut
EmbedLimit == 4096
CutAt == 4090

\* n times the character c
Chars(c, n) == [i \in 1 .. n |-> c]

\* bot.py 216, 232: the status texts of a cached and of a failed item, 11
\* and 13 characters
CachedStatus == Chars("s", 11)
FailedStatus == Chars("s", 13)
\* a watch URL: 32 characters and the 11 of the id
UrlChars == Chars("u", 43)

\* discord_utils.py 14-35, on titles without * _ ` and line ends: the
\* brackets are removed
sanitize_title_for_markdown(title) ==
    SelectSeq(title, LAMBDA c : c \notin {"[", "]"})

\* bot.py 251-257: the line of an entry, with its reason on a line below
RecapLine(result) ==
    LET title == sanitize_title_for_markdown(result.title)
        line == result.status \o <<":", " ", "[">> \o title \o <<"]", "(">>
                \o result.url \o <<")">>
    IN IF result.has_reason
       THEN line \o <<"\n", ">", " ">> \o result.reason
       ELSE line

RECURSIVE JoinLines(_)
\* "\n".join(lines)
JoinLines(lines) ==
    IF lines = <<>> THEN <<>>
    ELSE IF Len(lines) = 1 THEN lines[1]
    ELSE lines[1] \o <<"\n">> \o JoinLines(Tail(lines))

recap_description_lines(results_log) ==
    [k \in DOMAIN results_log |-> RecapLine(results_log[k])]

ContinuationMarker == <<"\n", ".", ".", ".">>

\* bot.py 260-262
recap_description(results_log) ==
    LET d == JoinLines(recap_description_lines(results_log))
    IN IF Len(d) > EmbedLimit
       THEN SubSeq(d, 1, CutAt) \o ContinuationMarker
       ELSE d

\* the results_log of n items with titles of tl characters: cached items,
\* or failed items with a reason of rl characters
LogOf(n, tl, bracket, rl) ==
    [k \in 1 .. n |->
        [status |-> IF rl = 0 THEN CachedStatus ELSE FailedStatus,
         title |-> IF bracket THEN <<"[">> \o Chars("t", tl - 1)
                   ELSE Chars("t", tl),
         url |-> UrlChars,
         has_reason |-> rl > 0,
         reason |-> Chars("r", rl)]]

RecapInit ==
    /\ youtube_client \in BOOLEAN
    /\ summaries = {}
    /\ user_usage = <<>>
    /\ today = 0
    /\ calls = 0
    /\ task = [p \in Procs |-> Idle]
    /\ completed = [u \in Users |-> 0]
    /\ started = TRUE
    /\ orphans = {}
    /\ batch = NoBatch
    /\ reading = NoReading
    /\ \E n \in 1 .. MaxLines, tl \in MaxTitle - 2 .. MaxTitle,
          bracket \in BOOLEAN, rl \in {0, 20} :
          recap = [results_log |-> LogOf(n, tl, bracket, rl),
                   text |-> <<>>, sent |-> FALSE]

\* bot.py 250-268: the detailed log is rendered and sent
Recap ==
    /\ ~ recap.sent
    /\ recap' = [recap EXCEPT !.text = recap_description(recap.results_log),
                              !.sent = TRUE]
    /\ UNCHANGED <<youtube_client, tables, today, calls, task, completed,
                   started, orphans, batch, reading>>

RecapNext == Recap

RecapSpec == RecapInit /\ [][RecapNext]_vars

\* C11: an invocation that returns 'in_progress' has made no change to the
\* Job table or the Usage Event log (none of its deletes found a row, it
\* inserted no row, updated no status) and no backend call.
C11_InProgressChangesNothing ==
    [][\A p \in Procs :
          task[p].pc = "insert" /\ task'[p].outcome.status = "in_progress"
          => /\ ~ task[p].removed
             /\ tables' = tables
             /\ \A i \in DOMAIN task'[p].ops :
                   task'[p].ops[i] \notin
                       BackendOps \cup {"insert", "replace", "update", "log"}]_vars

\* the closed set of outcome statuses
ClosedOutcomes ==
    {"cached", "complete", "limit_exceeded", "invalid_url", "in_progress",
     "quota_exceeded", "error"}

\* C12: process_video never lets a failure escape as a raw exception: every
\* invocation that has ended returned one of the closed outcome statuses.
C12_NoRawException ==
    \A p \in Procs : Done(p) => task[p].outcome.status \in ClosedOutcomes

\* C13: when the backend fails after the 'processing' row was inserted and
\* no other invocation touches the reference, process_video returns with
\* the row of the reference 'failed' and no Usage Event appended; the
\* outcome is 'quota_exceeded' exactly when generate_summary raised
\* QuotaExceededError and 'error' for every other failure.
C13_FailureMarksRowFailed ==
    [][\A p \in Procs :
          task[p].pc = "mark_failed" /\ task'[p].pc = "done" /\ task[p].alone
          => /\ get_summary_from_db(summaries', task[p].url).status = "failed"
             /\ user_usage' = user_usage
             /\ ~ Has(task'[p].ops, "log")
             /\ task'[p].outcome.status =
                   (IF task[p].exc = "QuotaExceededError"
                    THEN "quota_exceeded" ELSE "error")]_vars

\* C13 witness: the backend reported quota exhaustion to the only task, and
\* the row is 'failed'
C13_QuotaFailureRecorded ==
    \E p \in Procs :
        /\ Done(p) /\ OnlyTask(p)
        /\ task[p].outcome.status = "quota_exceeded"
        /\ Has(task[p].ops, "summary")
        /\ get_summary_from_db(summaries, task[p].url).status = "failed"
        /\ user_usage = <<>>

\* the row add_summary_to_db writes for the invocation of task p
RowWritten(t) ==
    [youtube_url |-> t.url, video_title |-> t.video_title,
     channel_title |-> t.channel_title, summary_text |-> t.summary_text,
     status |-> "complete"]

\* the invocation of p returns after a generation that succeeded: it returns
\* 'complete' with the generated title and text, it has appended one Usage
\* Event for its user, and it wrote the row before that
ReturnsComplete(p) ==
    /\ task'[p].outcome =
          DictOutcome("complete", TitleOf(task[p].video_id), SummaryOf(p))
    /\ user_usage' = Append(user_usage,
                            [user_id |-> task[p].user_id,
                             youtube_url |-> task[p].url,
                             summarized_at |-> today])
    /\ Count(task'[p].ops, "log") = 1
    /\ task'[p].ops[Len(task'[p].ops) - 1] = "replace"

\* C14 as claimed: when generation succeeds process_video returns
\* 'complete', on return the row of the reference is 'complete' with the
\* generated summary text, title and channel label, and exactly one Usage
\* Event of the caller has been appended, after the row was written.
C14_CompleteRowOnReturn ==
    [][\A p \in Procs :
          task[p].pc = "log_usage" /\ task'[p].pc = "done"
          => /\ ReturnsComplete(p)
             /\ get_summary_from_db(summaries', task[p].url) =
                   RowWritten(task[p])]_vars

\* C14 amended: the return, the Usage Event and the order hold for every
\* successful generation; the row of the reference is 'complete' with the
\* generated text, title and channel label on return when no other
\* invocation on the reference overlapped this one.
C14_CompleteRowOnReturnWhenAlone ==
    [][\A p \in Procs :
          task[p].pc = "log_usage" /\ task'[p].pc = "done"
          => /\ ReturnsComplete(p)
             /\ task[p].alone
                => /\ get_summary_from_db(summaries', task[p].url) =
                         RowWritten(task[p])
                   /\ task[p].summary_text = SummaryOf(p)
                   /\ task[p].video_title = TitleOf(task[p].video_id)
                   /\ task[p].channel_title = ChannelOf(task[p].video_id)]_vars

\* C14 witness: the only task has returned 'complete' and the row holds its
\* summary
C14_CompleteRowWritten ==
    \E p \in Procs :
        /\ Done(p) /\ OnlyTask(p)
        /\ task[p].outcome.status = "complete"
        /\ get_summary_from_db(summaries, task[p].url) =
              [youtube_url |-> task[p].url,
               video_title |-> TitleOf(task[p].video_id),
               channel_title |-> ChannelOf(task[p].video_id),
               summary_text |-> SummaryOf(p), status |-> "complete"]
        /\ Len(user_usage) = 1

\* the step is the deletion a force_new=true invocation makes on u
ForceDeletes(u) ==
    \E p \in Procs :
        /\ task[p].pc = "force_delete" /\ task[p].url = u
        /\ task'[p].pc = "recheck"

\* C17: no silent data loss: once the row of a reference is 'complete' with
\* a summary it stays 'complete' with that summary until a force_new=true
\* invocation on the reference deletes it; no mark-failed update, retry
\* deletion or other write changes it.
C17_CompleteRowStays ==
    [][\A u \in Urls :
          get_summary_from_db(summaries, u).status = "complete"
          => \/ get_summary_from_db(summaries', u) =
                    get_summary_from_db(summaries, u)
             \/ ForceDeletes(u)]_vars

\* C18: the Job table holds at most one row per reference string.
C18_OneRowPerReference ==
    \A u \in Urls : Cardinality(RowsOf(summaries, u)) <= 1

\* C18 witness: the UNIQUE constraint has turned an insert away, and the row
\* of the reference is the only one
C18_InsertRejected ==
    \E p \in Procs :
        /\ Done(p) /\ task[p].outcome.status = "in_progress"
        /\ Cardinality(RowsOf(summaries, task[p].url)) = 1

\* the outcomes that set a latch of the batch
HardStops == {"limit_exceeded", "quota_exceeded"}

\* every entry after the entry of a hard stop is a skipped one, and the item
\* of the hard stop is reported failed
SkippedAfterHardStop ==
    \A j \in DOMAIN batch.results_log :
        batch.results_log[j].reason \in HardStops
        => /\ batch.results_log[j].status = "failed"
           /\ IF batch.results_log[j].reason = "limit_exceeded"
              THEN batch.user_limit_hit ELSE batch.quota_hit
           /\ \A k \in DOMAIN batch.results_log :
                 k > j => batch.results_log[k] =
                              LogEntry(batch.url_list[k], batch.url_list[k],
                                       "skipped", NULL)

\* a step taken with a latch set keeps the latches and is no call of
\* process_video, no backend call and no change of the tables
NothingAfterHardStop ==
    batch.user_limit_hit \/ batch.quota_hit
    => /\ batch.user_limit_hit => batch'.user_limit_hit
       /\ batch.quota_hit => batch'.quota_hit
       /\ task' = task
       /\ tables' = tables
       /\ batch'.fetches = batch.fetches

\* C15: in handle_multiple_videos a latch set by 'limit_exceeded' or
\* 'quota_exceeded' stays set for the rest of the batch, and every later
\* item is recorded as skipped with no call of process_video, no backend
\* call and no change of the Job table or the Usage log.
C15_HardStopSkipsTheRest ==
    [](batch.pc # "idle" => SkippedAfterHardStop)
    /\ [][batch.pc # "idle" => NothingAfterHardStop]_vars

\* C15 witness: the first of three items failed with the backend quota and
\* the other two are reported skipped
C15_QuotaThenTwoSkipped ==
    /\ batch.pc = "done"
    /\ Len(batch.report.lines) = 3
    /\ batch.report.lines[1].reason = "quota_exceeded"
    /\ batch.report.lines[2].status = "skipped"
    /\ batch.report.lines[3].status = "skipped"
    /\ batch.report.failed = 3

\* C16: for every batch and every combination of outcomes of the closed set,
\* handle_multiple_videos runs to the end (no item makes it raise) and the
\* report holds the counts and one entry per item.
C16_BatchEmitsReport ==
    /\ batch.pc # "crashed"
    /\ batch.pc = "done"
       => /\ Len(batch.report.lines) = Len(batch.url_list)
          /\ batch.report.new + batch.report.cached + batch.report.failed
                = Len(batch.url_list)

\* what the sweep does to the tables: every 'processing' row is 'failed'
\* now, every other row and the Usage Event log are as they were
SweptOnly ==
    /\ \A r \in summaries' : r.status # "processing"
    /\ \A r \in summaries :
          IF r.status = "processing"
          THEN [r EXCEPT !.status = "failed"] \in summaries'
          ELSE r \in summaries'
    /\ Cardinality(summaries') = Cardinality(summaries)
    /\ user_usage' = user_usage

\* C19: the startup sweep of setup_database finishes before the first
\* process_video invocation starts; right after it no row is 'processing'
\* (each such row is 'failed'), and the 'complete' and 'failed' rows and the
\* Usage Event log are unchanged.
C19_SweepBeforeTraffic ==
    /\ [](~ started => calls = 0 /\ \A p \in Procs : task[p].pc = "idle")
    /\ [][~ started /\ started' => SweptOnly]_vars

\* C19 witness: the sweep found a 'processing' row beside a 'complete' one
\* and an invocation has started after it
C19_OrphanSwept ==
    /\ started /\ calls = 1
    /\ orphans = {UrlWatch}
    /\ get_summary_from_db(summaries, UrlShort).status = "complete"
    /\ task[StartupTask].pc = "get_cached"

\* max(1, ceil(w / 200)): the least number of minutes, one at least, in
\* which w words are read at 200 words a minute
MinutesFor(w) == CHOOSE m \in 1 .. w + 1 :
                    /\ 200 * m >= w
                    /\ m = 1 \/ 200 * (m - 1) < w

\* C20: estimate_reading_time returns max(1, ceil(w/200)) minutes for a text
\* of w whitespace-separated words, "min" for one minute and "mins" for
\* more: 0 and 200 words give "~1 min read", 201 words "~2 mins read".
C20_ReadingTime ==
    reading.result # NULL
    => /\ reading.result =
             (IF MinutesFor(reading.words) = 1 THEN "~1 min read"
              ELSE "~" \o ToString(MinutesFor(reading.words)) \o " mins read")
       /\ reading.words \in {0, 200} => reading.result = "~1 min read"
       /\ reading.words = 201 => reading.result = "~2 mins read"

\* C20 witness: the time of a text of 201 words, two blanks between the
\* words, has been estimated
C20_TwoMinutes ==
    /\ reading.words = 201
    /\ reading.text = TextOf(201, 2, 2, 1)
    /\ reading.result = "~2 mins read"

\* the text ends with s
EndsWith(text, s) ==
    /\ Len(text) >= Len(s)
    /\ SubSeq(text, Len(text) - Len(s) + 1, Len(text)) = s

\* C21: a detailed log of more than 4096 characters is sent as at most 4096
\* characters that end with the continuation marker, the text before the
\* marker being whole lines of entries; a shorter one is sent unchanged.
C21_CutBetweenEntries ==
    recap.sent
    => LET lines == recap_description_lines(recap.results_log)
           d == JoinLines(lines)
       IN IF Len(d) > EmbedLimit
          THEN /\ Len(recap.text) <= EmbedLimit
               /\ EndsWith(recap.text, ContinuationMarker)
               /\ \E k \in 0 .. Len(lines) :
                     recap.text = JoinLines(SubSeq(lines, 1, k))
                                  \o ContinuationMarker
          ELSE recap.text = d

\* C22: the Usage Event log is append-only: every step of the startup sweep
\* and of process_video (the force_new and the retry deletion included)
\* leaves the log as it was or appends one event to it.
C22_UsageLogAppendOnly ==
    [][\/ user_usage' = user_usage
       \/ /\ Len(user_usage') = Len(user_usage) + 1
          /\ SubSeq(user_usage', 1, Len(user_usage)) = user_usage]_vars

\* C22 witness: after a sweep that changed a row, user 102 had a summary
\* generated and the event is appended to the one kept from the earlier run
C22_EventAppendedToOldLog ==
    /\ started /\ orphans # {}
    /\ task[StartupTask].pc = "done"
    /\ task[StartupTask].outcome.status = "complete"
    /\ Len(user_usage) = 2
    /\ user_usage[1].user_id = 101 /\ user_usage[2].user_id = 102

\* the 'complete' rows stored under another string that names the video of
\* p's reference
OtherSpellings(tbl, p) ==
    {r \in tbl : /\ r.status = "complete"
                 /\ r.youtube_url # task[p].url
                 /\ get_video_id(r.youtube_url) = task[p].video_id}

\* p returns from a call without force_new that began with no row of its
\* reference, a 'complete' row being stored under another spelling
ReturnsBesideOtherSpelling(p) ==
    /\ InFlight(p) /\ task'[p].pc = "done"
    /\ task[p].first /\ ~ task[p].force_new
    /\ OtherSpellings(summaries, p) # {}

\* C23 as stated: the Job key is the raw reference string: with a 'complete'
\* row under another spelling of the same video, a call without force_new
\* never returns 'cached' but returns 'complete' with a second Job row, a
\* new generation and one more Usage Event.
C23_OtherSpellingGeneratesAgain ==
    [][ReturnsBesideOtherSpelling(BatchTask)
       => /\ task'[BatchTask].outcome.status = "complete"
          /\ Has(task'[BatchTask].ops, "insert")
          /\ Has(task'[BatchTask].ops, "summary")
          /\ Len(user_usage') = Len(user_usage) + 1]_vars

\* C23 amended: such a call never returns 'cached'; a caller below the
\* ceiling gets a second Job row and new backend calls; when these succeed
\* the call returns 'complete', both rows are 'complete' and one Usage Event
\* is appended, otherwise the second row is 'failed' and no event is added.
C23_OtherSpellingIsNotCached ==
    [][ReturnsBesideOtherSpelling(BatchTask)
       => LET t == task[BatchTask]
              o == task'[BatchTask].outcome
              own == RowsOf(summaries', t.url)
          IN /\ o.status # "cached"
             /\ ~ limit_reached(get_user_usage_today(user_usage, t.user_id,
                                                     today))
                => /\ o.status \in {"complete", "quota_exceeded", "error"}
                   /\ Has(task'[BatchTask].ops, "insert")
                   /\ Has(task'[BatchTask].ops, "details")
                   /\ Cardinality(own) = 1
                   /\ OtherSpellings(summaries', BatchTask) # {}
                   /\ \A r \in own :
                         r.status = IF o.status = "complete" THEN "complete"
                                    ELSE "failed"
             /\ IF o.status = "complete"
                THEN /\ Has(task'[BatchTask].ops, "summary")
                     /\ user_usage' =
                           log_user_usage(user_usage, t.user_id, t.url, today)
                ELSE user_usage' = user_usage]_vars

\* C23 witness: the watch URL was summarized for user 102; the batch of
\* user 101 had the short URL of the same video generated again: two
\* 'complete' rows and two Usage Events
C23_TwoRowsOneVideo ==
    /\ task[BatchTask].pc = "done"
    /\ task[BatchTask].url = UrlShort
    /\ task[BatchTask].outcome.status = "complete"
    /\ get_summary_from_db(summaries, UrlWatch).status = "complete"
    /\ get_summary_from_db(summaries, UrlShort).status = "complete"
    /\ Len(user_usage) = 2
    /\ user_usage[2].youtube_url = UrlShort

\* p has returned a failure from the try block of process_video
FailedInGeneration(p) ==
    /\ task[p].pc = "done"
    /\ task[p].outcome.status \in {"quota_exceeded", "error"}
    /\ task[p].outcome.shape = "pair"

\* C24: a failure returned from the generation block carries the title the
\* backend gave when the failure came after the metadata fetch (the
\* transcript fetch was reached), and "N/A" when it came at that fetch.
C24_FailureCarriesTitle ==
    \A p \in Procs :
        FailedInGeneration(p)
        => /\ Has(task[p].ops, "details")
           /\ task[p].outcome.video_title =
                 IF Has(task[p].ops, "transcript")
                 THEN TitleOf(task[p].video_id) ELSE "N/A"

\* C24 witness: one call failed at the metadata fetch and reports "N/A",
\* another failed at the summary with the quota error and reports the title
C24_BothTitles ==
    /\ FailedInGeneration("task1") /\ FailedInGeneration("task2")
    /\ task["task1"].outcome.video_title = "N/A"
    /\ task["task1"].outcome.status = "error"
    /\ task["task2"].outcome.status = "quota_exceeded"
    /\ task["task2"].outcome.video_title = TitleOf("AAAAAAAAAAA")

\* get_video_details returned None in the try block of p: the ValueError of
\* bot.py 131 is the exception the block ended with
DetailsMissing(p) == task[p].pc = "mark_failed" /\ task[p].exc = "ValueError"

\* C25: when the metadata fetch of the generation path returns nothing, the
\* call fetches no transcript and generates no summary, marks the row of the
\* reference 'failed', appends no Usage Event and returns 'error' with the
\* placeholder title.
C25_MissingDetailsFailTheJob ==
    [][DetailsMissing(StartupTask)
       => /\ task'[StartupTask].pc = "done"
          /\ task'[StartupTask].outcome = PairOutcome("error", "N/A")
          /\ Has(task'[StartupTask].ops, "details")
          /\ \A i \in DOMAIN task'[StartupTask].ops :
                task'[StartupTask].ops[i] \notin {"transcript", "summary",
                                                   "replace", "log"}
          /\ user_usage' = user_usage
          /\ RowsOf(summaries, task[StartupTask].url) # {}
          /\ \A r \in RowsOf(summaries', task[StartupTask].url) :
                r.status = "failed"
          /\ Cardinality(RowsOf(summaries', task[StartupTask].url)) = 1]_vars

\* C25 witness: the retry of a reference whose row the sweep had marked
\* 'failed' got no metadata: its new row is 'processing' and the ValueError
\* is about to be handled
C25_NoDetailsOnRetry ==
    /\ DetailsMissing(StartupTask)
    /\ task[StartupTask].url \in orphans
    /\ task[StartupTask].ops[Len(task[StartupTask].ops)] = "details"
    /\ get_summary_from_db(summaries, task[StartupTask].url).status
          = "processing"

NoneInFlight == \A p \in Procs : ~ InFlight(p)
ProcessingRows == {r \in summaries : r.status = "processing"}

\* C26: when every awaited call returns, every invocation of process_video
\* returns; when no invocation is in flight no row is 'processing'; and a
\* row inserted as 'processing' is later 'complete', 'failed' or deleted,
\* whatever the interleaving of the invocations.
C26_NoRowLeftProcessing ==
    /\ \A p \in Procs : InFlight(p) ~> ~ InFlight(p)
    /\ [](NoneInFlight => ProcessingRows = {})
    /\ \A u \in Urls :
          (get_summary_from_db(summaries, u).status = "processing")
          ~> (get_summary_from_db(summaries, u).status # "processing")

\* C26 witness: two invocations on one reference overlapped, each made its
\* insert, both have returned, and the row is not 'processing'
C26_BothReturned ==
    /\ NoneInFlight
    /\ \A p \in Procs : /\ task[p].pc = "done"
                        /\ task[p].url = UrlWatch
                        /\ Has(task[p].ops, "insert")
    /\ Has(task["task2"].ops, "delete")
    /\ task["task1"].outcome.status = "complete"
    /\ task["task2"].outcome.status = "error"
    /\ get_summary_from_db(summaries, UrlWatch).status = "failed"

\* the entries of the log with one of the statuses
EntriesWith(log, statuses) == {k \in DOMAIN log : log[k].status \in statuses}

\* C27: at every loop boundary of handle_multiple_videos the three counts
\* sum to the number of items handled, which is the length of results_log;
\* the entries are in input order; skipped items count as failed; at the end
\* the counts sum to the size of the batch.
C27_CountsMatchLog ==
    batch.pc \in {"item", "call", "wait", "done"}
    => /\ batch.success_count + batch.cached_count + batch.fail_count
             = batch.i - 1
       /\ Len(batch.results_log) = batch.i - 1
       /\ \A k \in DOMAIN batch.results_log :
             batch.results_log[k].url = batch.url_list[k]
       /\ batch.success_count
             = Cardinality(EntriesWith(batch.results_log, {"summarized"}))
       /\ batch.cached_count
             = Cardinality(EntriesWith(batch.results_log, {"cached"}))
       /\ batch.fail_count
             = Cardinality(EntriesWith(batch.results_log,
                                       {"failed", "skipped"}))
       /\ batch.pc = "done"
          => /\ batch.i - 1 = Len(batch.url_list)
             /\ batch.report.new + batch.report.cached + batch.report.failed
                   = Len(batch.url_list)

\* C27 witness: a batch of three ended: the first item came from the cache,
\* the second failed on the backend quota, the third was skipped
C27_CachedFailedSkipped ==
    /\ batch.pc = "done"
    /\ Len(batch.url_list) = 3
    /\ batch.results_log[1].status = "cached"
    /\ batch.results_log[2].status = "failed"
    /\ batch.results_log[3].status = "skipped"
    /\ batch.report.cached = 1 /\ batch.report.failed = 2

\* C28: process_video returns 'in_progress' only when the row that rejected
\* its insert is 'processing' and was inserted by an invocation that is
\* still running; never against a 'complete' or 'failed' row.
C28_InProgressMeansRunning ==
    [][\A p \in Procs :
          (task[p].pc = "insert" /\ task'[p].outcome.status = "in_progress")
          => /\ get_summary_from_db(summaries, task[p].url).status
                   = "processing"
             /\ \E q \in Procs \ {p} :
                   /\ InFlight(q)
                   /\ task[q].url = task[p].url
                   /\ Has(task[q].ops, "insert")]_vars
====
